---------------------------- MODULE Spec2Model ----------------------------
(***************************************************************************)
(* Tectra clock abstraction (src/src/common/time.hpp, src/src/main.cpp).   *)
(*                                                                         *)
(* Timestamp is std::int64_t.  TLC's integers are 32 bits wide, so a       *)
(* 64-bit value is kept as its two's-complement image in 16-bit limbs,     *)
(* least significant limb first; the exact (mathematical) sum of two       *)
(* int64 values is kept in one limb more.                                  *)
(***************************************************************************)
EXTENDS Integers, Sequences, FiniteSets, TLC

\* ------------------------------------------------------------------ int64

Int64Bits == 64
LimbBase == 2^16
NumLimbs == Int64Bits \div 16
TopLimb == LimbBase - 1
SignLimb == LimbBase \div 2

\* A value is negative when the sign bit of its most significant limb is set.
IsNeg(a) == a[Len(a)] >= SignLimb

\* The int64 image of a small integer n (|n| < 2^31), sign-extended.
I64(n) ==
  [i \in 1..NumLimbs |->
     IF i = 1 THEN n % LimbBase
     ELSE IF i = 2 THEN (n \div LimbBase) % LimbBase
     ELSE IF n < 0 THEN TopLimb ELSE 0]

INT64_MAX == [i \in 1..NumLimbs |-> IF i = NumLimbs THEN SignLimb - 1 ELSE TopLimb]
INT64_MIN == [i \in 1..NumLimbs |-> IF i = NumLimbs THEN SignLimb ELSE 0]

\* 1'000'000'000 and 5'000'000'000, the literals of main.cpp.
OneSecond == I64(1000000000)
FiveSeconds == <<61952, 10757, 1, 0>>

\* Sign extension by one limb, and the carry chain of a limb-wise addition.
Ext(a) == Append(a, IF IsNeg(a) THEN TopLimb ELSE 0)

RECURSIVE Carry(_, _, _)
Carry(a, b, i) ==
  IF i = 1 THEN 0 ELSE (a[i - 1] + b[i - 1] + Carry(a, b, i - 1)) \div LimbBase

AddLimbs(a, b) == [i \in 1..Len(a) |-> (a[i] + b[i] + Carry(a, b, i)) % LimbBase]

\* The exact sum t + d of two int64 values, one limb wider than int64.
MathSum(t, d) == AddLimbs(Ext(t), Ext(d))

\* A wide value lies in [INT64_MIN, INT64_MAX] iff its top limb is the sign
\* extension of the limbs below it.
Representable(w) ==
  w[NumLimbs + 1] = (IF w[NumLimbs] >= SignLimb THEN TopLimb ELSE 0)

Trunc(w) == [i \in 1..NumLimbs |-> w[i]]

\* Signed order on values of equal width.
Less(a, b) ==
  IF IsNeg(a) # IsNeg(b) THEN IsNeg(a)
  ELSE \E i \in 1..Len(a) :
         /\ a[i] < b[i]
         /\ \A j \in (i + 1)..Len(a) : a[j] = b[j]

Leq(a, b) == a = b \/ Less(a, b)


\* What `current_time_ += delta_ns` can leave in current_time_.  The operands
\* are signed 64-bit, so the sum is the exact one when it is representable;
\* otherwise the addition is undefined behaviour: the build may store the
\* wrapped sum, the saturated one or any other value, or trap (-ftrapv, a
\* sanitizer).  An outcome is a record: the value stored and whether the
\* process was stopped instead.
WrapAdd(t, d) == Trunc(MathSum(t, d))

SatAdd(t, d) ==
  IF Representable(MathSum(t, d)) THEN Trunc(MathSum(t, d))
  ELSE IF IsNeg(MathSum(t, d)) THEN INT64_MIN ELSE INT64_MAX

Overflows(t, d) == ~Representable(MathSum(t, d))

\* ------------------------------------------------------------ inputs

MaxOps == 3

\* Arguments the caller passes: constructor / set_time values and deltas.
Timestamps == {INT64_MIN, I64(-1), I64(0), I64(100), FiveSeconds, INT64_MAX}
Deltas == {INT64_MIN, I64(-50), I64(-1), I64(0), I64(1), OneSecond, INT64_MAX}

UndefinedValues(t, d) == Timestamps \cup {WrapAdd(t, d), SatAdd(t, d)}

\* A variant that ignores a negative delta (the clock only moves forward).
AddAssign_forward_only(t, d) ==
  IF ~Overflows(t, d)
  THEN {[value |-> IF IsNeg(d) THEN t ELSE Trunc(MathSum(t, d)), trap |-> FALSE]}
  ELSE {[value |-> v, trap |-> FALSE] : v \in UndefinedValues(t, d)}
       \cup {[value |-> t, trap |-> TRUE]}

\* A variant that clamps the result at zero instead of letting time go
\* negative.
AddAssign_clamped(t, d) ==
  IF ~Overflows(t, d)
  THEN {[value |-> IF IsNeg(Trunc(MathSum(t, d))) THEN I64(0) ELSE Trunc(MathSum(t, d)),
         trap |-> FALSE]}
  ELSE {[value |-> v, trap |-> FALSE] : v \in UndefinedValues(t, d)}
       \cup {[value |-> t, trap |-> TRUE]}

AddAssign(t, d) ==
  IF ~Overflows(t, d)
  THEN {[value |-> Trunc(MathSum(t, d)), trap |-> FALSE]}
  ELSE {[value |-> v, trap |-> FALSE] : v \in UndefinedValues(t, d)}
       \cup {[value |-> t, trap |-> TRUE]}

\* The exact difference t2 - t1 of two int64 values, one limb wider than
\* int64: t2 plus the two's complement of t1, both sign-extended.
Complement(a) == [i \in 1..Len(a) |-> TopLimb - a[i]]

Negated(a) == AddLimbs(Complement(a), [i \in 1..Len(a) |-> IF i = 1 THEN 1 ELSE 0])

MathDiff(t2, t1) == AddLimbs(Ext(t2), Negated(Ext(t1)))

\* What `t2 - t1` on two Timestamps can give (auto delta_ns = t2 - t1): the
\* exact difference when it is representable, and undefined behaviour
\* otherwise, as for the addition.
\* A variant with the operands the other way round.
Subtraction_reversed(t2, t1) ==
  IF Representable(MathDiff(t1, t2))
  THEN {[value |-> Trunc(MathDiff(t1, t2)), trap |-> FALSE]}
  ELSE {[value |-> v, trap |-> FALSE] : v \in Timestamps \cup {Trunc(MathDiff(t1, t2))}}
       \cup {[value |-> t2, trap |-> TRUE]}

Subtraction(t2, t1) ==
  IF Representable(MathDiff(t2, t1))
  THEN {[value |-> Trunc(MathDiff(t2, t1)), trap |-> FALSE]}
  ELSE {[value |-> v, trap |-> FALSE] : v \in Timestamps \cup {Trunc(MathDiff(t2, t1))}}
       \cup {[value |-> t2, trap |-> TRUE]}

\* ------------------------------------------------------------ platform

\* std::chrono::duration_cast<std::chrono::nanoseconds>(duration).count():
\* the tick count times the ratio of the clock's period to a nanosecond,
\* p[1]/p[2], the quotient truncated toward zero, as an int64.
TruncDiv(n, m) == IF n >= 0 THEN n \div m ELSE -((-n) \div m)

\* A variant that converts to microseconds instead of nanoseconds.
DurationCast_micro(count, p) == TruncDiv(count * p[1], p[2] * 1000)

\* A variant that keeps the product in a narrower integer, which wraps
\* (here at 2^11, inside the tick range of the model).
DurationCast_narrow(count, p) == TruncDiv(count * p[1], p[2]) % 2^11

DurationCast(count, p) == TruncDiv(count * p[1], p[2])

\* steady_clock::period relative to std::nano on the platforms modelled:
\* nanosecond ticks, microsecond ticks, half-nanosecond ticks.
Periods == {<<1, 1>>, <<1000, 1>>, <<1, 2>>}

\* The raw tick count of the steady clock when the process starts (the epoch
\* is the platform's choice), and the last count the model lets it reach.
StartTicks == {-3, 0}
MaxTick == 3

Threads == {"t1", "t2"}

\* std::this_thread::sleep_for(std::chrono::milliseconds(100)), in
\* nanoseconds, and two shorter sleeps a caller may ask for.
SleepMillis == 100
SleepDurations == {SleepMillis * 1000000, 1500, 1}

\* The ticks the steady clock is sure to count while at least S nanoseconds
\* of real time pass: S over the period p[1]/p[2] ns, rounded down, since
\* the sleep may begin and end anywhere inside a tick.
SleepTicks(S, p) == (S * p[2]) \div p[1]

\* ------------------------------------------------------------ state

VARIABLES
  start_time,     \* the constructor argument of the VirtualClock
  defaulted,      \* the VirtualClock was constructed with no argument
  current_time_,  \* VirtualClock::current_time_
  calls,          \* the calls made on the VirtualClock so far, with results
  trapped,        \* the process was stopped by a trapping overflow
  steady,         \* the platform steady clock's tick count
  period,         \* the platform steady clock's period
  pc,             \* where each thread is inside RealClock::now()
  tp,             \* each thread's local `now` (a time_point, as its count)
  seen,           \* how many RealClock calls had returned when the thread's began
  done,           \* the RealClock calls that have returned, in order of return
  elapsed,        \* main's delta_ns: the difference of two Timestamps returned
  adv,            \* where each thread is inside VirtualClock::advance()
  serialised      \* the callers of advance() exclude one another

vvars == <<start_time, defaulted, current_time_, calls, trapped>>
rvars == <<steady, period, pc, tp, seen, done>>
cvars == <<elapsed, adv, serialised>>
vars == <<start_time, defaulted, current_time_, calls, trapped,
          steady, period, pc, tp, seen, done, elapsed, adv, serialised>>

\* One call on the VirtualClock as its caller sees it: the operation, its
\* argument, the Timestamp or bool it returned, and current_time_ when the
\* call began (pre) and when it returned (post).
Call(op, arg, ret, flag, pre, post) ==
  [op |-> op, arg |-> arg, ret |-> ret, flag |-> flag, pre |-> pre, post |-> post]

Zero == I64(0)

\* ------------------------------------------------------------ VirtualClock

\* explicit VirtualClock(Timestamp start_time = 0) : current_time_(start_time)
DefaultStartTime == I64(0)

\* A variant whose constructor drops its argument.
VirtualClock_drops_start(a) ==
  /\ start_time = a
  /\ current_time_ = DefaultStartTime
  /\ calls = <<>>
  /\ trapped = FALSE

VirtualClock(a) ==
  /\ start_time = a
  /\ current_time_ = a
  /\ calls = <<>>
  /\ trapped = FALSE

Pending == {t \in Threads : pc[t] # "idle" \/ adv[t].pc = "loaded"}

CanCall ==
  /\ ~trapped
  /\ Len(calls) + Len(done) + Cardinality(Pending) < MaxOps

\* Timestamp now() const override { return current_time_; }
NowResult(t) == t

\* A variant whose now() moves the clock on by one nanosecond per read.
VirtualClock_now_drifts ==
  /\ CanCall
  /\ current_time_' = WrapAdd(current_time_, I64(1))
  /\ calls' = Append(calls, Call("now", Zero, NowResult(current_time_), FALSE,
                                 current_time_, current_time_'))
  /\ UNCHANGED <<start_time, defaulted, trapped>>
  /\ UNCHANGED <<rvars, cvars>>

VirtualClock_now ==
  /\ CanCall
  /\ calls' = Append(calls, Call("now", Zero, NowResult(current_time_), FALSE,
                                 current_time_, current_time_))
  /\ UNCHANGED <<start_time, defaulted, current_time_, trapped>>
  /\ UNCHANGED <<rvars, cvars>>

\* bool is_virtual() const override { return true; }
\* A variant that answers from the state: virtual once time has been moved.
VirtualIsVirtual_by_state == current_time_ # start_time

VirtualIsVirtual == TRUE

VirtualClock_is_virtual ==
  /\ CanCall
  /\ calls' = Append(calls, Call("is_virtual", Zero, Zero, VirtualIsVirtual,
                                 current_time_, current_time_))
  /\ UNCHANGED <<start_time, defaulted, current_time_, trapped>>
  /\ UNCHANGED <<rvars, cvars>>

\* void advance(std::int64_t delta_ns) { current_time_ += delta_ns; }
VirtualClock_advance(delta_ns) ==
  /\ CanCall
  /\ \E o \in AddAssign(current_time_, delta_ns) :
       /\ current_time_' = o.value
       /\ trapped' = o.trap
  /\ calls' = Append(calls, Call("advance", delta_ns, Zero, FALSE,
                                 current_time_, current_time_'))
  /\ UNCHANGED <<start_time, defaulted>>
  /\ UNCHANGED <<rvars, cvars>>

\* advance() called by several threads on one VirtualClock.  The compound
\* assignment is a read of current_time_, an addition and a write, with no
\* lock and no atomic: a thread's read and write are two steps, and the steps
\* of different threads interleave unless the callers exclude one another.
CallerMayEnter(t) ==
  serialised => \A u \in Threads \ {t} : adv[u].pc # "loaded"

VirtualClock_advance_load(t, delta_ns) ==
  /\ adv[t].pc = "idle" /\ pc[t] = "idle"
  /\ CanCall
  /\ CallerMayEnter(t)
  /\ adv' = [adv EXCEPT ![t] = [pc |-> "loaded", delta |-> delta_ns,
                                reg |-> current_time_]]
  /\ UNCHANGED <<vvars, rvars, elapsed, serialised>>

VirtualClock_advance_store(t) ==
  /\ adv[t].pc = "loaded"
  /\ ~trapped
  /\ \E o \in AddAssign(adv[t].reg, adv[t].delta) :
       /\ current_time_' = o.value
       /\ trapped' = o.trap
  /\ calls' = Append(calls, Call("advance", adv[t].delta, Zero, FALSE,
                                 adv[t].reg, current_time_'))
  /\ adv' = [adv EXCEPT ![t].pc = "done"]
  /\ UNCHANGED <<start_time, defaulted>>
  /\ UNCHANGED <<rvars, elapsed, serialised>>

\* void set_time(Timestamp absolute_time) { current_time_ = absolute_time; }
\* A variant that refuses to move time backwards.
SetTimeResult_forward_only(t, absolute_time) ==
  IF Less(absolute_time, t) THEN t ELSE absolute_time

SetTimeResult(t, absolute_time) == absolute_time

VirtualClock_set_time(absolute_time) ==
  /\ CanCall
  /\ current_time_' = SetTimeResult(current_time_, absolute_time)
  /\ calls' = Append(calls, Call("set_time", absolute_time, Zero, FALSE,
                                 current_time_, current_time_'))
  /\ UNCHANGED <<start_time, defaulted, trapped>>
  /\ UNCHANGED <<rvars, cvars>>

\* ------------------------------------------------------------ RealClock

\* RealClock has no data members: constructing it sets nothing.  The steady
\* clock and its period belong to the platform.
RealClock ==
  /\ steady \in StartTicks
  /\ period \in Periods
  /\ pc = [t \in Threads |-> "idle"]
  /\ tp = [t \in Threads |-> 0]
  /\ seen = [t \in Threads |-> 0]
  /\ done = <<>>

\* The platform's steady clock moves forward on its own.
\* A variant reading an adjustable clock (system_clock), which may be stepped
\* back.
Tick_adjustable ==
  /\ \/ steady < MaxTick /\ steady' = steady + 1
     \/ steady > -MaxTick /\ steady' = steady - 1
  /\ UNCHANGED <<period, pc, tp, seen, done>>
  /\ UNCHANGED <<vvars, cvars>>

Tick ==
  /\ steady < MaxTick
  /\ steady' = steady + 1
  /\ UNCHANGED <<period, pc, tp, seen, done>>
  /\ UNCHANGED <<vvars, cvars>>

\* A thread enters RealClock::now().
RealClock_now_call(t) ==
  /\ pc[t] = "idle"
  /\ CanCall
  /\ pc' = [pc EXCEPT ![t] = "entered"]
  /\ seen' = [seen EXCEPT ![t] = Len(done)]
  /\ UNCHANGED <<steady, period, tp, done>>
  /\ UNCHANGED <<vvars, cvars>>

\* auto now = std::chrono::steady_clock::now();
SteadyNow(count) == count

RealClock_now_read(t) ==
  /\ pc[t] = "entered"
  /\ ~trapped
  /\ tp' = [tp EXCEPT ![t] = SteadyNow(steady)]
  /\ pc' = [pc EXCEPT ![t] = "read"]
  /\ UNCHANGED <<steady, period, seen, done>>
  /\ UNCHANGED <<vvars, cvars>>

\* auto duration = now.time_since_epoch();
\* return std::chrono::duration_cast<std::chrono::nanoseconds>(duration).count();
RealNowResult(count, p) == I64(DurationCast(count, p))

RealClock_now_return(t) ==
  /\ pc[t] = "read"
  /\ ~trapped
  /\ done' = Append(done, [th |-> t, op |-> "now", seen |-> seen[t],
                           ret |-> RealNowResult(tp[t], period), flag |-> FALSE])
  /\ pc' = [pc EXCEPT ![t] = "idle"]
  /\ UNCHANGED <<steady, period, tp, seen>>
  /\ UNCHANGED <<vvars, cvars>>

\* bool is_virtual() const override { return false; }
RealIsVirtual == FALSE

RealClock_is_virtual(t) ==
  /\ pc[t] = "idle"
  /\ CanCall
  /\ done' = Append(done, [th |-> t, op |-> "is_virtual", seen |-> Len(done),
                           ret |-> Zero, flag |-> RealIsVirtual])
  /\ UNCHANGED <<steady, period, pc, tp, seen>>
  /\ UNCHANGED <<vvars, cvars>>

\* std::this_thread::sleep_for(S): the thread is blocked for at least S of
\* real time, and possibly longer; the steady clock runs on meanwhile.
Sleep(t, S) ==
  /\ pc[t] = "idle"
  /\ CanCall
  /\ \E late \in 0..1 : steady' = steady + SleepTicks(S, period) + late
  /\ done' = Append(done, [th |-> t, op |-> "sleep", seen |-> Len(done),
                           ret |-> I64(S), flag |-> FALSE])
  /\ UNCHANGED <<period, pc, tp, seen>>
  /\ UNCHANGED <<vvars, cvars>>

\* ------------------------------------------------------------ callers

\* The callers before they have done anything: no difference computed, no
\* thread inside advance().
NoDelta == [set |-> FALSE, t1 |-> Zero, t2 |-> Zero, value |-> Zero]

ThreadsIdle ==
  adv = [t \in Threads |-> [pc |-> "idle", delta |-> Zero, reg |-> Zero]]

CallersIdle ==
  /\ elapsed = NoDelta
  /\ ThreadsIdle
  /\ serialised = TRUE

\* The Timestamps the callers have been returned so far.
ReturnedTimestamps ==
  {calls[n].ret : n \in {m \in 1..Len(calls) : calls[m].op = "now"}}
    \cup {done[i].ret : i \in {j \in 1..Len(done) : done[j].op = "now"}}

\* auto delta_ns = t2 - t1;
Subtract ==
  /\ ~trapped
  /\ ~elapsed.set
  /\ \E t1 \in ReturnedTimestamps : \E t2 \in ReturnedTimestamps :
       \E o \in Subtraction(t2, t1) :
         /\ elapsed' = [set |-> TRUE, t1 |-> t1, t2 |-> t2, value |-> o.value]
         /\ trapped' = o.trap
  /\ UNCHANGED <<start_time, defaulted, current_time_, calls>>
  /\ UNCHANGED <<rvars, adv, serialised>>

\* ------------------------------------------------------------ specifications

VirtualInit ==
  \/ \E a \in Timestamps : VirtualClock(a) /\ defaulted = FALSE
  \/ VirtualClock(DefaultStartTime) /\ defaulted = TRUE

VirtualNext ==
  \/ VirtualClock_now
  \/ VirtualClock_is_virtual
  \/ \E d \in Deltas : VirtualClock_advance(d)
  \/ \E a \in Timestamps : VirtualClock_set_time(a)

RealNext ==
  \/ Tick
  \/ \E t \in Threads : RealClock_now_call(t)
  \/ \E t \in Threads : RealClock_now_read(t)
  \/ \E t \in Threads : RealClock_now_return(t)
  \/ \E t \in Threads : RealClock_is_virtual(t)

\* A VirtualClock driven by one caller; the RealClock is constructed and idle.
Init ==
  /\ VirtualInit
  /\ RealClock /\ steady = 0 /\ period = <<1, 1>>
  /\ CallersIdle

Next == VirtualNext

Spec == Init /\ [][Next]_vars

\* A RealClock read by the threads; the VirtualClock is constructed and idle.
RealInit ==
  /\ VirtualClock(DefaultStartTime) /\ defaulted = TRUE
  /\ RealClock
  /\ CallersIdle

RealSpec == RealInit /\ [][RealNext]_vars

\* Both objects in use in one process, as in main(): every operation of both
\* classes, the VirtualClock's mutations drawn from main()'s arguments and
\* from arguments that overflow.
BothInit ==
  /\ VirtualInit
  /\ RealClock /\ steady = 0 /\ period = <<1, 1>>
  /\ CallersIdle

BothNext ==
  \/ VirtualClock_now
  \/ VirtualClock_is_virtual
  \/ \E d \in {OneSecond, INT64_MAX} : VirtualClock_advance(d)
  \/ VirtualClock_set_time(FiveSeconds)
  \/ RealNext

BothSpec == BothInit /\ [][BothNext]_vars

\* A caller that reads a VirtualClock, sets it, and subtracts two of the
\* Timestamps it read.
DiffNext ==
  \/ VirtualClock_now
  \/ \E a \in Timestamps : VirtualClock_set_time(a)
  \/ Subtract

DiffSpec == Init /\ [][DiffNext]_vars

\* main()'s RealClock test: one thread reads, sleeps, reads and subtracts.
SleepNext ==
  \/ Tick
  \/ RealClock_now_call("t1")
  \/ RealClock_now_read("t1")
  \/ RealClock_now_return("t1")
  \/ \E S \in SleepDurations : Sleep("t1", S)
  \/ Subtract

SleepSpec == RealInit /\ [][SleepNext]_vars

\* A caller that only advances and reads one VirtualClock, from every start
\* time the constructor accepts.
AdvanceNext ==
  \/ VirtualClock_now
  \/ \E d \in Deltas : VirtualClock_advance(d)

AdvanceSpec == Init /\ [][AdvanceNext]_vars

\* Two threads that each call advance() once on one VirtualClock, with or
\* without the callers excluding one another.
RaceInit ==
  /\ VirtualInit
  /\ RealClock /\ steady = 0 /\ period = <<1, 1>>
  /\ elapsed = NoDelta
  /\ ThreadsIdle
  /\ serialised \in BOOLEAN

RaceNext ==
  \/ \E t \in Threads : \E d \in Deltas : VirtualClock_advance_load(t, d)
  \/ \E t \in Threads : VirtualClock_advance_store(t)

RaceSpec == RaceInit /\ [][RaceNext]_vars

\* ------------------------------------------------------------ properties

Calls == 1..Len(calls)
IsMutation(c) == c.op \in {"advance", "set_time"}
Returned(n, op) == n \in Calls /\ calls[n].op = op

\* The state machine of the specification, computed exactly (no int64
\* width): the constructor argument folded over the first n calls with
\* advance(d): t := t + d and set_time(a): t := a.
RECURSIVE FoldTo(_)
FoldTo(n) ==
  IF n = 0 THEN Ext(start_time)
  ELSE IF calls[n].op = "advance" THEN AddLimbs(FoldTo(n - 1), Ext(calls[n].arg))
  ELSE IF calls[n].op = "set_time" THEN Ext(calls[n].arg)
  ELSE FoldTo(n - 1)

\* C1: every now() on a VirtualClock returns exactly the constructor argument
\* folded over the advance and set_time calls made before it, and no call
\* other than advance or set_time changes the current time.
C1_NowIsFold ==
  \A n \in Calls :
    /\ calls[n].op = "now" => Ext(calls[n].ret) = FoldTo(n - 1)
    /\ ~IsMutation(calls[n]) => calls[n].post = calls[n].pre

\* C2: the first now() of a VirtualClock constructed with a returns a, and
\* of one constructed with no argument returns 0.
C2_FirstNow ==
  Returned(1, "now") =>
    /\ calls[1].ret = start_time
    /\ defaulted => calls[1].ret = I64(0)

C2_Witness ==
  /\ Returned(1, "now")
  /\ ~defaulted
  /\ start_time = INT64_MIN
  /\ calls[1].ret = INT64_MIN

\* C3: after set_time(a); advance(d) the next now() returns a + d, or, when
\* a + d is not an int64, the value the overflow policy (saturate or wrap)
\* gives, whatever time was held before set_time.
C3_SetThenAdvance ==
  \A n \in Calls :
    (Returned(n, "set_time") /\ Returned(n + 1, "advance") /\ Returned(n + 2, "now")) =>
      LET a == calls[n].arg
          d == calls[n + 1].arg
      IN  IF ~Overflows(a, d)
          THEN calls[n + 2].ret = Trunc(MathSum(a, d))
          ELSE calls[n + 2].ret \in {SatAdd(a, d), WrapAdd(a, d)}

\* The advance calls whose exact sum t + d is not an int64.
OverflowingAdvances ==
  {n \in Calls : calls[n].op = "advance" /\ Overflows(calls[n].pre, calls[n].arg)}

\* C4: an advance whose sum leaves [INT64_MIN, INT64_MAX] stops nothing and
\* leaves the value of one policy, the same at every overflow: the saturated
\* sum every time, or the wrapped sum every time.
C4_OverflowPolicy ==
  /\ ~trapped
  /\ \/ \A n \in OverflowingAdvances :
          calls[n].post = SatAdd(calls[n].pre, calls[n].arg)
     \/ \A n \in OverflowingAdvances :
          calls[n].post = WrapAdd(calls[n].pre, calls[n].arg)

\* C5: advance with a negative delta whose sum is representable leaves
\* exactly t + d, strictly below t, unclamped (it may be negative or below
\* the constructor argument), and the next now() returns it;
\* VirtualClock(100); advance(-50) gives now() == 50.
C5_NegativeAdvance ==
  /\ \A n \in Calls :
       (calls[n].op = "advance" /\ IsNeg(calls[n].arg)
          /\ ~Overflows(calls[n].pre, calls[n].arg)) =>
         /\ Ext(calls[n].post) = MathSum(calls[n].pre, calls[n].arg)
         /\ Less(calls[n].post, calls[n].pre)
         /\ Returned(n + 1, "now") => calls[n + 1].ret = calls[n].post
  /\ (start_time = I64(100) /\ Returned(1, "advance") /\ calls[1].arg = I64(-50)
        /\ Returned(2, "now")) => calls[2].ret = I64(50)

C5_Witness ==
  /\ start_time = I64(0)
  /\ Returned(1, "advance") /\ calls[1].arg = I64(-50)
  /\ Returned(2, "now") /\ calls[2].ret = I64(-50)
  /\ Less(calls[2].ret, start_time)

\* C6: set_time(a) can always be called and leaves exactly a, whatever the
\* time before (larger, smaller, negative, an int64 bound), and the next
\* now() returns a.
C6_SetTime ==
  /\ \A n \in Calls :
       calls[n].op = "set_time" =>
         /\ calls[n].post = calls[n].arg
         /\ Returned(n + 1, "now") => calls[n + 1].ret = calls[n].arg
  /\ CanCall => \A a \in Timestamps : ENABLED VirtualClock_set_time(a)

C6_Witness ==
  /\ Returned(1, "set_time") /\ calls[1].arg = INT64_MAX
  /\ Returned(2, "set_time") /\ calls[2].arg = INT64_MIN
  /\ Less(calls[2].arg, calls[2].pre)
  /\ Returned(3, "now") /\ calls[3].ret = INT64_MIN

\* C7: now() and is_virtual() leave the current time as it was, and now()
\* calls with no advance or set_time between them return the same Timestamp.
C7_PureReads ==
  /\ \A n \in Calls :
       calls[n].op \in {"now", "is_virtual"} =>
         /\ calls[n].post = calls[n].pre
         /\ Returned(n + 1, "now") => calls[n + 1].ret = calls[n].pre
  /\ \A i \in Calls : \A j \in Calls :
       (i < j /\ calls[i].op = "now" /\ calls[j].op = "now"
          /\ \A k \in i..j : ~IsMutation(calls[k])) =>
         calls[i].ret = calls[j].ret

C7_Witness ==
  /\ start_time = I64(100)
  /\ Returned(1, "now") /\ Returned(2, "is_virtual") /\ Returned(3, "now")
  /\ calls[1].ret = I64(100) /\ calls[3].ret = I64(100)

Reads == 1..Len(done)
IsRead(i) == i \in Reads /\ done[i].op = "now"

\* C8: every is_virtual() on the VirtualClock returns true, whatever calls
\* came before and whatever the current time, and every is_virtual() on the
\* RealClock returns false, however many reads came before.
C8_IsVirtual ==
  /\ \A n \in Calls : calls[n].op = "is_virtual" => calls[n].flag = TRUE
  /\ \A i \in Reads : done[i].op = "is_virtual" => done[i].flag = FALSE

C8_Witness ==
  /\ \E n \in Calls : \E k \in Calls :
       /\ k < n /\ IsMutation(calls[k])
       /\ calls[n].op = "is_virtual" /\ calls[n].flag = TRUE
       /\ calls[n].pre # start_time
  /\ \E i \in Reads : done[i].op = "is_virtual" /\ done[i].flag = FALSE

\* C9: the Timestamps one thread gets from successive RealClock::now() calls
\* never decrease.
C9_SingleThreadMonotonic ==
  \A i \in Reads : \A j \in Reads :
    (i < j /\ IsRead(i) /\ IsRead(j) /\ done[i].th = done[j].th) =>
      Leq(done[i].ret, done[j].ret)

C9_Witness ==
  \E i \in Reads : \E j \in Reads :
    /\ i < j /\ IsRead(i) /\ IsRead(j) /\ done[i].th = done[j].th
    /\ Less(done[i].ret, done[j].ret)
    /\ period = <<1, 2>>
    /\ IsNeg(done[i].ret)

\* Call i had returned when call j began.
HappensBefore(i, j) == i <= done[j].seen

\* C10: when a RealClock::now() call of one thread returned before a call of
\* another thread began, the later call's Timestamp is not smaller; calls
\* that overlap are not ordered.
C10_CrossThreadMonotonic ==
  \A i \in Reads : \A j \in Reads :
    (IsRead(i) /\ IsRead(j) /\ done[i].th # done[j].th /\ HappensBefore(i, j)) =>
      Leq(done[i].ret, done[j].ret)

C10_Witness ==
  \E i \in Reads : \E j \in Reads :
    /\ IsRead(i) /\ IsRead(j) /\ done[i].th # done[j].th /\ HappensBefore(i, j)
    /\ Less(done[i].ret, done[j].ret)

\* C11 as stated: the difference of any two Timestamps a clock returned is
\* representable as an int64: computing it stops nothing and gives the exact
\* t2 - t1.
C11_AnyDifference ==
  elapsed.set =>
    /\ ~trapped
    /\ Representable(MathDiff(elapsed.t2, elapsed.t1))
    /\ AddLimbs(Ext(elapsed.value), Ext(elapsed.t1)) = Ext(elapsed.t2)

\* C11: the difference of two Timestamps of the same sign (both >= 0 or both
\* < 0) is representable as an int64, in either direction: computing it
\* stops nothing and gives the exact t2 - t1.
C11_SameSignDifference ==
  (elapsed.set /\ IsNeg(elapsed.t1) = IsNeg(elapsed.t2)) =>
    /\ ~trapped
    /\ Representable(MathDiff(elapsed.t2, elapsed.t1))
    /\ AddLimbs(Ext(elapsed.value), Ext(elapsed.t1)) = Ext(elapsed.t2)

C11_Witness ==
  /\ elapsed.set
  /\ elapsed.t1 = FiveSeconds /\ elapsed.t2 = I64(100)
  /\ IsNeg(elapsed.value)
  /\ AddLimbs(Ext(elapsed.value), Ext(FiveSeconds)) = Ext(I64(100))

\* A read, then a sleep, then a read, all by one thread.
ReadSleepRead(i, j, k) ==
  /\ i < j /\ j < k
  /\ IsRead(i) /\ done[j].op = "sleep" /\ IsRead(k)
  /\ done[i].th = done[j].th /\ done[j].th = done[k].th

\* The nanoseconds a sleep was asked for, and one tick of the steady clock
\* in nanoseconds, rounded up.
SleptNs(j) == done[j].ret[1] + done[j].ret[2] * LimbBase
Resolution(p) == (p[1] + p[2] - 1) \div p[2]

\* C12 as stated: across a read t1, a sleep of at least S nanoseconds and a
\* read t2 of a RealClock, t2 - t1 >= S.
C12_DeltaAtLeastSleep ==
  \A i \in Reads : \A j \in Reads : \A k \in Reads :
    ReadSleepRead(i, j, k) =>
      Leq(Ext(done[j].ret), MathDiff(done[k].ret, done[i].ret))

\* C12: across a read t1, a sleep of at least S nanoseconds and a read t2 of
\* a RealClock, t2 - t1 >= S less one tick of the steady clock; t2 - t1 >= S
\* when the tick is a whole number of nanoseconds that divides S, as for the
\* 100 ms of main(); and after 100 ms t2 - t1 >= 50,000,000 on every clock.
\* The difference main() computes is that t2 - t1.
C12_DeltaWithinATick ==
  \A i \in Reads : \A j \in Reads : \A k \in Reads :
    ReadSleepRead(i, j, k) =>
      /\ Leq(Ext(I64(SleptNs(j) - Resolution(period))),
             MathDiff(done[k].ret, done[i].ret))
      /\ (period[2] = 1 /\ SleptNs(j) % period[1] = 0) =>
           Leq(Ext(done[j].ret), MathDiff(done[k].ret, done[i].ret))
      /\ SleptNs(j) = 100000000 =>
           Leq(Ext(I64(50000000)), MathDiff(done[k].ret, done[i].ret))
      /\ (elapsed.set /\ elapsed.t1 = done[i].ret /\ elapsed.t2 = done[k].ret) =>
           Ext(elapsed.value) = MathDiff(done[k].ret, done[i].ret)

C12_Witness ==
  /\ period = <<1000, 1>>
  /\ Len(done) = 3 /\ ReadSleepRead(1, 2, 3)
  /\ SleptNs(2) = 100000000
  /\ Less(Ext(done[2].ret), MathDiff(done[3].ret, done[1].ret))
  /\ elapsed.set /\ elapsed.t1 = done[1].ret /\ elapsed.t2 = done[3].ret
  /\ Less(done[2].ret, elapsed.value)

\* The time advance(d) leaves from time t when t + d is an int64 (the one
\* outcome of the addition), and whether two advances in a row both are.
Advanced(t, d) == (CHOOSE o \in AddAssign(t, d) : TRUE).value
NoOverflow(t, d1, d2) == ~Overflows(t, d1) /\ ~Overflows(Advanced(t, d1), d2)

\* C13: when no sum overflows int64, advance(d1); advance(d2) leaves exactly
\* t + d1 + d2, the same time as advance(d2); advance(d1) and as
\* advance(d1 + d2); advance(0) leaves the time unchanged; and advance(d);
\* advance(-d) restores the time held before.
C13_AdvanceComposes ==
  /\ \A n \in Calls :
       (Returned(n, "advance") /\ Returned(n + 1, "advance")
          /\ NoOverflow(calls[n].pre, calls[n].arg, calls[n + 1].arg)) =>
         LET t == calls[n].pre
             d1 == calls[n].arg
             d2 == calls[n + 1].arg
             final == calls[n + 1].post
         IN  /\ Ext(final) = AddLimbs(MathSum(t, d1), Ext(d2))
             /\ NoOverflow(t, d2, d1) => final = Advanced(Advanced(t, d2), d1)
             /\ ~Overflows(d1, d2) => final = Advanced(t, Trunc(MathSum(d1, d2)))
             /\ MathSum(d1, d2) = Ext(Zero) => final = t
             /\ Returned(n + 2, "now") => calls[n + 2].ret = final
  /\ \A n \in Calls :
       (calls[n].op = "advance" /\ calls[n].arg = I64(0)) =>
         calls[n].post = calls[n].pre

C13_Witness ==
  /\ start_time = I64(100)
  /\ Returned(1, "advance") /\ calls[1].arg = I64(-1)
  /\ Returned(2, "advance") /\ calls[2].arg = I64(1)
  /\ NoOverflow(start_time, I64(1), I64(-1))
  /\ Returned(3, "now") /\ calls[3].ret = I64(100)

\* Both threads have returned from their advance(), and the exact
\* t + d1 + d2 of the constructor argument and their two deltas.
BothAdvanced == \A t \in Threads : adv[t].pc = "done"
ExactTotal ==
  AddLimbs(AddLimbs(Ext(start_time), Ext(adv["t1"].delta)), Ext(adv["t2"].delta))

\* C14: when two threads' advance(d1) and advance(d2) on one VirtualClock
\* are serialised by the caller, the final current time is t + d1 + d2.
C14_SerialisedTotal ==
  (serialised /\ BothAdvanced) => Ext(current_time_) = ExactTotal

\* C14: without serialisation a lost update is reachable: both calls have
\* returned, no sum overflowed, and the current time is t + d2 only.
C14_LostUpdate ==
  /\ ~serialised /\ BothAdvanced /\ ~trapped
  /\ adv["t1"].delta = OneSecond /\ adv["t2"].delta = I64(-50)
  /\ start_time = I64(100)
  /\ Representable(ExactTotal)
  /\ Ext(current_time_) # ExactTotal
  /\ current_time_ = I64(50)

=============================================================================
